---- MODULE Spec2Model ----
(***************************************************************************)
(* Model of src/main.py: the "Edith" FastAPI application.  Four POST       *)
(* endpoints (analyze, solve_doubt, edit, givescore) each build a prompt,  *)
(* hand it to get_gemini_response, which assembles the segment list        *)
(* input_data and calls the provider's generate_content, and relay the     *)
(* provider's text.                                                        *)
(*                                                                         *)
(* Python strings are TLA+ strings; + is \o.  An optional argument is a    *)
(* sequence of length 0 (None) or 1 (a string).  The keycap emoji of the   *)
(* fixed prompt texts are written "1.", "2.", "3." (the module is ASCII).  *)
(*                                                                         *)
(* All four handlers are `async def` coroutines holding no await: the      *)
(* server process runs them on its one event loop, and the provider call   *)
(* model.generate_content is an ordinary blocking call made on that loop.  *)
(***************************************************************************)
EXTENDS Naturals, Sequences, FiniteSets, TLC

\* Number of HTTP requests the clients send to the process.
NumRequests == 2

Req == 1..NumRequests

VARIABLES
    req,    \* req[r]: the HTTP request r as sent: [ep, json, fields]; NoRequest before it is sent
    pc,     \* pc[r]: "idle" | "received" | "calling" | "done"
    loop,   \* the request whose handler occupies the event loop, 0 when the loop is free
    hung,   \* hung[r]: the provider call made for r never returns
    sent,   \* sent[r]: the segment lists handed to generate_content for r, in order
    reply,  \* reply[r]: what generate_content came back with for r's call
    out     \* out[r]: the outcomes delivered to r's caller, in order

vars == <<req, pc, loop, hung, sent, reply, out>>

----------------------------------------------------------------------------
\* Values

None == <<>>
Some(s) == <<s>>

\* Python truthiness of an optional string: None and "" are falsy.
Truthy(o) == o # None /\ o[1] # ""

\* Texts a client may put in a field: the empty string, and a non-empty one
\* that imitates the label of a code segment.
Texts == {"", "User Code: x"}

\* A field of a JSON body: absent, or a string.
Absent == [kind |-> "absent", text |-> ""]
Str(s) == [kind |-> "string", text |-> s]
JsonValues == {Absent} \cup {Str(s) : s \in Texts}

\* Texts the provider may answer with.
ProviderTexts == {"7\n", "ok"}

Endpoints == {"analyze", "solve_doubt", "edit", "givescore"}

\* Request models: every field is a required str, none has a default.
ApproachRequest == {"problem_statement", "code_input"}
DoubtRequest == {"doubt_question", "problem_context"}
GeneralCodingQuestion == {"question"}
ScoreRequest == {"question", "answer"}

RequestModel(ep) ==
    CASE ep = "analyze" -> ApproachRequest
      [] ep = "solve_doubt" -> DoubtRequest
      [] ep = "edit" -> GeneralCodingQuestion
      [] ep = "givescore" -> ScoreRequest

Fields == ApproachRequest \cup DoubtRequest \cup GeneralCodingQuestion \cup ScoreRequest

\* The requests a client can send to endpoint ep: a body that is not JSON at all,
\* or a JSON object giving each field of the endpoint's model a JsonValue.
Malformed(ep) == [ep |-> ep, json |-> FALSE, fields |-> [f \in Fields |-> Absent]]
Bodies(ep) ==
    {[f \in Fields |-> IF f \in RequestModel(ep) THEN g[f] ELSE Absent] :
        g \in [RequestModel(ep) -> JsonValues]}
Requests(ep) ==
    {Malformed(ep)} \cup {[ep |-> ep, json |-> TRUE, fields |-> b] : b \in Bodies(ep)}

NoRequest == [ep |-> "none", json |-> FALSE, fields |-> [f \in Fields |-> Absent]]

\* Schema validation of the body against the endpoint's request model
\* (the `request: ApproachRequest` parameter): the body parses as JSON and
\* every declared field is there and is a string.
Valid_FieldsOptional(q) ==
    q.json /\ \A f \in RequestModel(q.ep) : q.fields[f].kind \in {"string", "absent"}
Valid(q) ==
    q.json /\ \A f \in RequestModel(q.ep) : q.fields[f].kind = "string"

\* The validated model object the handler receives as `request`.
Model(q) == [f \in RequestModel(q.ep) |-> q.fields[f].text]

----------------------------------------------------------------------------
\* get_gemini_response: the segment list input_data

QuestionLabel == "Problem/Question: "
CodeLabel == "User Code: "
PromptLabel == "Prompt: "

InputData_CodeFirst(prompt, code_snippet, user_question) ==
    (IF Truthy(code_snippet) THEN <<CodeLabel \o code_snippet[1]>> ELSE <<>>)
    \o (IF Truthy(user_question) THEN <<QuestionLabel \o user_question[1]>> ELSE <<>>)
    \o <<PromptLabel \o prompt>>
InputData_IsNotNone(prompt, code_snippet, user_question) ==
    (IF user_question # None THEN <<QuestionLabel \o user_question[1]>> ELSE <<>>)
    \o (IF code_snippet # None THEN <<CodeLabel \o code_snippet[1]>> ELSE <<>>)
    \o <<PromptLabel \o prompt>>
InputData(prompt, code_snippet, user_question) ==
    (IF Truthy(user_question) THEN <<QuestionLabel \o user_question[1]>> ELSE <<>>)
    \o (IF Truthy(code_snippet) THEN <<CodeLabel \o code_snippet[1]>> ELSE <<>>)
    \o <<PromptLabel \o prompt>>

----------------------------------------------------------------------------
\* The handlers' fixed prompt texts and the calls they make

prompt_approach ==
    "You are an expert coding mentor named Edith. The user has provided a coding problem and a code snippet. "
    \o "Analyze the code and provide a **concise and professional** response covering three key areas:\n\n"
    \o "1. **How the user can proceed next** based on the current implementation.\n"
    \o "2. **Identify errors (if any)**, mentioning **specific line numbers** and explaining incorrect logic.\n"
    \o "3. **Give the correct approach** (without providing direct code), focusing on best practices and improvements."

prompt_doubt ==
    "You are a knowledgeable technical mentor named Edith. "
    \o "Answer the user's question and clarify any doubts regarding the problem statement. "
    \o "Provide a **precise yet detailed explanation**, ensuring conceptual clarity."

prompt_edit ==
    "You are Edith, an AI coding mentor who helps users **think** about problems instead of just providing answers. \n"
    \o "        For the given coding question, explain **how the user should approach it**, including:\n"
    \o "        1. **Breaking down the problem logically**  \n"
    \o "        2. **Identifying key concepts involved**  \n"
    \o "        3. **Steps to derive a solution independently**  \n"
    \o "        Encourage problem-solving without giving direct solutions."

ScoreIntro ==
    "You are an expert evaluator. Evaluate the following answer to the given question on a scale of 0 to 10, "
    \o "where 0 means completely incorrect and 10 means completely correct.\n\n"
ScoreInstruction == "Please respond only with the numeric score."

prompt_score_AnswerFirst(request) ==
    ScoreIntro
    \o "Answer: " \o request.answer \o "\n"
    \o "Question: " \o request.question \o "\n\n"
    \o ScoreInstruction
prompt_score(request) ==
    ScoreIntro
    \o "Question: " \o request.question \o "\n"
    \o "Answer: " \o request.answer \o "\n\n"
    \o ScoreInstruction

combined_question_NoSeparator(request) ==
    request.doubt_question \o " " \o request.problem_context
combined_question(request) ==
    request.doubt_question \o "\nContext: " \o request.problem_context

\* The input_data each handler's call of get_gemini_response hands to generate_content.
analyze_code_input(request) ==
    InputData(prompt_approach, Some(request.code_input), Some(request.problem_statement))

solve_doubt_input(request) ==
    InputData(prompt_doubt, None, Some(combined_question(request)))

edit_code_thinking_input_Positional(request) ==
    InputData(prompt_edit, Some(request.question), None)
edit_code_thinking_input(request) ==
    InputData(prompt_edit, None, Some(request.question))

give_score_input(request) ==
    InputData(prompt_score(request), None, None)

\* The JSON body a handler returns around the provider's text.
Strip(text) ==
    IF Len(text) > 0 /\ SubSeq(text, Len(text), Len(text)) = "\n"
    THEN SubSeq(text, 1, Len(text) - 1) ELSE text
ResponseBody_Stripped(ep, text) ==
    IF ep = "givescore" THEN [score |-> Strip(text)] ELSE [response |-> Strip(text)]
ResponseBody(ep, text) ==
    IF ep = "givescore" THEN [score |-> text] ELSE [response |-> text]

\* What the caller gets.
Ok(body) == [status |-> "ok", body |-> body]
ValidationError == [status |-> "validation_error", body |-> [detail |-> "validation"]]
ServerError == [status |-> "server_error", body |-> [detail |-> "Internal Server Error"]]

NoReply == [kind |-> "none", text |-> ""]
TextReply(t) == [kind |-> "text", text |-> t]
Raised == [kind |-> "raised", text |-> ""]

----------------------------------------------------------------------------
\* The state machine

Init ==
    /\ req = [r \in Req |-> NoRequest]
    /\ pc = [r \in Req |-> "idle"]
    /\ loop = 0
    /\ hung = [r \in Req |-> FALSE]
    /\ sent = [r \in Req |-> <<>>]
    /\ reply = [r \in Req |-> NoReply]
    /\ out = [r \in Req |-> <<>>]

\* A client sends request r to one of the endpoints; requests are numbered in
\* the order they arrive.
Receive(r) ==
    /\ pc[r] = "idle"
    /\ \A p \in Req : p < r => pc[p] # "idle"
    /\ \E ep \in Endpoints : \E q \in Requests(ep) : req' = [req EXCEPT ![r] = q]
    /\ pc' = [pc EXCEPT ![r] = "received"]
    /\ UNCHANGED <<loop, hung, sent, reply, out>>

\* The event loop is free to run r's coroutine.
Runnable(r) == pc[r] = "received" /\ loop = 0

\* The framework answers a request that fails validation itself; the handler
\* is never entered.
RejectInvalid(r) ==
    /\ Runnable(r)
    /\ ~Valid(req[r])
    /\ out' = [out EXCEPT ![r] = Append(@, ValidationError)]
    /\ pc' = [pc EXCEPT ![r] = "done"]
    /\ UNCHANGED <<req, loop, hung, sent, reply>>

\* The framework enters the handler of endpoint ep with the validated request.
Dispatched(r, ep) == Runnable(r) /\ req[r].ep = ep /\ Valid(req[r])

\* get_gemini_response up to and including the blocking call
\* model.generate_content(input_data): the call is made on the event loop,
\* which stays occupied by r until the call comes back.
Generate(r, input_data) ==
    /\ sent' = [sent EXCEPT ![r] = Append(@, input_data)]
    /\ pc' = [pc EXCEPT ![r] = "calling"]
    /\ loop' = r
    /\ UNCHANGED <<req, hung, reply, out>>

analyze_code(r) ==
    /\ Dispatched(r, "analyze")
    /\ Generate(r, analyze_code_input(Model(req[r])))

solve_doubt(r) ==
    /\ Dispatched(r, "solve_doubt")
    /\ Generate(r, solve_doubt_input(Model(req[r])))

edit_code_thinking(r) ==
    /\ Dispatched(r, "edit")
    /\ Generate(r, edit_code_thinking_input(Model(req[r])))

give_score(r) ==
    /\ Dispatched(r, "givescore")
    /\ Generate(r, give_score_input(Model(req[r])))

Outstanding(r) == pc[r] = "calling" /\ ~hung[r]

\* generate_content returns and response.text is t: get_gemini_response returns
\* t and the handler returns its body; the loop is free again.
GenerateReturns(r) ==
    /\ Outstanding(r)
    /\ \E t \in ProviderTexts :
        /\ reply' = [reply EXCEPT ![r] = TextReply(t)]
        /\ out' = [out EXCEPT ![r] = Append(@, Ok(ResponseBody(req[r].ep, t)))]
    /\ pc' = [pc EXCEPT ![r] = "done"]
    /\ loop' = 0
    /\ UNCHANGED <<req, hung, sent>>

\* generate_content (or response.text) raises: nothing in get_gemini_response
\* or the handler catches, so the framework answers with a server error.
GenerateRaises_Retry(r) ==
    /\ Outstanding(r)
    /\ IF Len(sent[r]) < 2
       THEN /\ sent' = [sent EXCEPT ![r] = Append(@, sent[r][1])]
            /\ UNCHANGED <<req, pc, loop, hung, reply, out>>
       ELSE /\ reply' = [reply EXCEPT ![r] = Raised]
            /\ out' = [out EXCEPT ![r] = Append(@, ServerError)]
            /\ pc' = [pc EXCEPT ![r] = "done"]
            /\ loop' = 0
            /\ UNCHANGED <<req, hung, sent>>
GenerateRaises_Fallback(r) ==
    /\ Outstanding(r)
    /\ reply' = [reply EXCEPT ![r] = Raised]
    /\ out' = [out EXCEPT ![r] = Append(@, Ok(ResponseBody(req[r].ep, "")))]
    /\ pc' = [pc EXCEPT ![r] = "done"]
    /\ loop' = 0
    /\ UNCHANGED <<req, hung, sent>>
GenerateRaises(r) ==
    /\ Outstanding(r)
    /\ reply' = [reply EXCEPT ![r] = Raised]
    /\ out' = [out EXCEPT ![r] = Append(@, ServerError)]
    /\ pc' = [pc EXCEPT ![r] = "done"]
    /\ loop' = 0
    /\ UNCHANGED <<req, hung, sent>>

\* generate_content never comes back: the call has no timeout.
GenerateHangs(r) ==
    /\ Outstanding(r)
    /\ hung' = [hung EXCEPT ![r] = TRUE]
    /\ UNCHANGED <<req, pc, loop, sent, reply, out>>

Next ==
    \E r \in Req :
        \/ Receive(r)
        \/ RejectInvalid(r)
        \/ analyze_code(r)
        \/ solve_doubt(r)
        \/ edit_code_thinking(r)
        \/ give_score(r)
        \/ GenerateReturns(r)
        \/ GenerateRaises(r)
        \/ GenerateHangs(r)

Spec == Init /\ [][Next]_vars

\* The event loop runs every coroutine that is ready to run.
Scheduled(r) ==
    RejectInvalid(r) \/ analyze_code(r) \/ solve_doubt(r) \/ edit_code_thinking(r) \/ give_score(r)

FairSpec == Spec /\ \A r \in Req : WF_vars(Scheduled(r))

----------------------------------------------------------------------------
\* Properties

Sent(r) == sent[r] # <<>>
StartsWith(s, p) == Len(s) >= Len(p) /\ SubSeq(s, 1, Len(p)) = p
Field(r, f) == req[r].fields[f].text
HasSegment(d, label) == \E i \in 1..Len(d) : StartsWith(d[i], label)

\* C1: every accepted request gets exactly one provider call and exactly one
\* outcome: never a second call for the same request, never more than one
\* outcome, a finished request has one of each, and the outcome delivered for a
\* request comes from the answer to that request's own call.
C1_OneCallOneOutcome ==
    \A r \in Req :
        /\ Len(sent[r]) <= 1
        /\ Len(out[r]) <= 1
        /\ pc[r] = "calling" => Len(sent[r]) = 1 /\ out[r] = <<>> /\ reply[r] = NoReply
        /\ pc[r] = "done" /\ Valid(req[r]) =>
            /\ Len(sent[r]) = 1
            /\ Len(out[r]) = 1
            /\ reply[r] # NoReply
            /\ out[r][1].status = "ok" =>
                /\ reply[r].kind = "text"
                /\ out[r][1].body \in {[response |-> reply[r].text], [score |-> reply[r].text]}
            /\ out[r][1].status # "ok" => reply[r] = Raised /\ out[r][1] = ServerError

\* Two requests with the same endpoint and body, both answered, with different texts.
C1_Witness ==
    \E r, q \in Req :
        /\ r < q /\ req[r] = req[q] /\ Valid(req[r])
        /\ pc[r] = "done" /\ pc[q] = "done"
        /\ reply[r].kind = "text" /\ reply[q].kind = "text" /\ reply[r] # reply[q]
        /\ Len(sent[r]) = 1 /\ Len(sent[q]) = 1

\* C2: a request that has been received and is valid reaches its own provider
\* call, whatever happens to the provider calls of the other requests.
C2_OthersReachTheirCall ==
    \A q \in Req : (pc[q] = "received" /\ Valid(req[q])) ~> Sent(q)

\* The question segment, then the code segment, both before the instructional
\* segment, which is last.
QuestionCodePrompt(r) ==
    LET d == sent[r][1] IN
    \E i, j \in 1..Len(d) :
        /\ i < j /\ j < Len(d)
        /\ d[i] = "Problem/Question: " \o Field(r, "problem_statement")
        /\ d[j] = "User Code: " \o Field(r, "code_input")
        /\ d[Len(d)] = "Prompt: " \o prompt_approach

\* C3 as stated: every valid analyze request, whose body carries both the
\* problem statement and the code snippet, sends the question segment and the
\* code segment in that order before the final instructional segment.
C3_EveryAnalyzeRequest ==
    \A r \in Req : (Sent(r) /\ req[r].ep = "analyze") => QuestionCodePrompt(r)

\* C3, amended: an analyze request whose problem statement and code snippet are
\* both non-empty sends the question segment, then the code segment, both
\* before the instructional segment, which is last.
C3_QuestionCodePrompt ==
    \A r \in Req :
        (Sent(r) /\ req[r].ep = "analyze"
            /\ Field(r, "problem_statement") # "" /\ Field(r, "code_input") # "")
        => QuestionCodePrompt(r)

\* An analyze call made with both fields non-empty.
C3_Witness ==
    \E r \in Req :
        /\ Sent(r) /\ req[r].ep = "analyze"
        /\ Field(r, "problem_statement") # "" /\ Field(r, "code_input") # ""
        /\ Len(sent[r][1]) = 3

\* C4: when the provider call of a request fails, the caller gets a server
\* error and nothing else: no further call is made for it, no other body is
\* delivered, then or later; the event loop is released and no other request's
\* state is touched.
C4_FailureStep(r) ==
    /\ (reply[r] # Raised /\ reply'[r] = Raised) =>
        /\ Len(sent[r]) = 1 /\ sent'[r] = sent[r]
        /\ out[r] = <<>> /\ out'[r] = <<ServerError>>
        /\ pc'[r] = "done"
        /\ loop' = 0
        /\ \A q \in Req \ {r} :
            /\ req'[q] = req[q] /\ pc'[q] = pc[q] /\ hung'[q] = hung[q]
            /\ sent'[q] = sent[q] /\ reply'[q] = reply[q] /\ out'[q] = out[q]
    /\ reply[r] = Raised =>
        /\ sent'[r] = sent[r] /\ out'[r] = out[r] /\ reply'[r] = reply[r] /\ pc'[r] = pc[r]

C4_FailurePropagates == [][\A r \in Req : C4_FailureStep(r)]_vars

\* A request failed with a server error, and the provider call of another
\* request, made after that failure, is in flight.
C4_Witness ==
    \E r, q \in Req :
        /\ reply[r] = Raised /\ out[r] = <<ServerError>> /\ Len(sent[r]) = 1
        /\ pc[q] = "calling" /\ loop = q /\ Len(sent[q]) = 1

\* C5: a request whose body is not JSON or lacks a field of the endpoint's
\* request model never enters the handler: no segment list is built and no
\* provider call is made for it, and its outcome is a validation error.
Rejectable(r) ==
    /\ pc[r] # "idle"
    /\ \/ ~req[r].json
       \/ \E f \in RequestModel(req[r].ep) : req[r].fields[f].kind = "absent"

C5_InvalidNeverReachesHandler ==
    \A r \in Req :
        Rejectable(r) =>
            /\ pc[r] \in {"received", "done"}
            /\ sent[r] = <<>>
            /\ reply[r] = NoReply
            /\ loop # r
            /\ pc[r] = "received" => out[r] = <<>>
            /\ pc[r] = "done" => out[r] = <<ValidationError>>

\* A body that is not JSON and a body that lacks one field have both been rejected.
C5_Witness ==
    \E r, q \in Req :
        /\ ~req[r].json /\ out[r] = <<ValidationError>>
        /\ req[q].json /\ out[q] = <<ValidationError>>
        /\ Cardinality({f \in RequestModel(req[q].ep) : req[q].fields[f].kind = "absent"}) = 1

\* C6: no segment handed to the provider for solve_doubt, edit or givescore
\* is a "User Code:" segment, whatever the fields hold.
C6_NoCodeSegment ==
    \A r \in Req :
        req[r].ep \in {"solve_doubt", "edit", "givescore"} =>
            \A k \in 1..Len(sent[r]) : ~HasSegment(sent[r][k], "User Code: ")

\* Calls made for edit and for givescore with a question that itself begins
\* with "User Code: ".
C6_WitnessAt(ep, f) ==
    \E r \in Req : Sent(r) /\ req[r].ep = ep /\ StartsWith(Field(r, f), "User Code: ")
C6_Witness ==
    /\ C6_WitnessAt("edit", "question")
    /\ C6_WitnessAt("givescore", "question")

\* C7: the question segment of a solve_doubt call carries
\* doubt_question + "\nContext: " + problem_context, for every value of the two
\* fields, and that is the combined question handed to prompt assembly.
C7_CombinedQuestion ==
    \A r \in Req :
        (Sent(r) /\ req[r].ep = "solve_doubt") =>
            LET expected == Field(r, "doubt_question") \o "\nContext: "
                                \o Field(r, "problem_context") IN
            /\ combined_question(Model(req[r])) = expected
            /\ sent[r][1][1] = "Problem/Question: " \o expected

\* A solve_doubt call made with both fields empty.
C7_Witness ==
    \E r \in Req :
        /\ Sent(r) /\ req[r].ep = "solve_doubt"
        /\ Field(r, "doubt_question") = "" /\ Field(r, "problem_context") = ""
        /\ sent[r][1][1] = "Problem/Question: \nContext: "

\* C8: the body delivered for an answered request wraps exactly the text the
\* provider returned for that request's call: {score: t} for givescore,
\* {response: t} for the other three.
C8_PassThrough ==
    \A r \in Req :
        reply[r].kind = "text" =>
            /\ pc[r] = "done"
            /\ out[r] = <<[status |-> "ok",
                           body |-> IF req[r].ep = "givescore"
                                    THEN [score |-> reply[r].text]
                                    ELSE [response |-> reply[r].text]]>>

\* A givescore request and a request of another endpoint, both answered, the
\* provider's text ending in a newline.
C8_Witness ==
    \E r, q \in Req :
        /\ req[r].ep = "givescore" /\ reply[r] = TextReply("7\n") /\ out[r][1].body.score = "7\n"
        /\ req[q].ep \in {"analyze", "solve_doubt", "edit"}
        /\ reply[q].kind = "text" /\ out[q][1].body.response = reply[q].text

\* C9: the one segment of a givescore call is the instructional segment; it
\* embeds the question and then the answer as they are, and ends with the
\* instruction to answer with the numeric score only.
C9_ScorePrompt ==
    \A r \in Req :
        (Sent(r) /\ req[r].ep = "givescore") =>
            /\ ~HasSegment(sent[r][1], "Problem/Question: ")
            /\ sent[r][1] =
                <<"Prompt: " \o ScoreIntro
                    \o "Question: " \o Field(r, "question")
                    \o "\nAnswer: " \o Field(r, "answer")
                    \o "\n\n" \o "Please respond only with the numeric score.">>

\* A givescore call whose question and answer differ.
C9_Witness ==
    \E r \in Req :
        /\ Sent(r) /\ req[r].ep = "givescore"
        /\ Field(r, "question") # "" /\ Field(r, "answer") = ""

\* C10: a call has the question segment exactly when the question string
\* handed to prompt assembly is non-empty and the code segment exactly when the
\* code string is non-empty: analyze per field, edit per its question (the
\* instructional segment alone when it is empty), solve_doubt always the
\* question segment, givescore neither.
C10_SegmentsIffNonEmpty ==
    \A r \in Req :
        Sent(r) =>
            LET d == sent[r][1]
                hasQ == HasSegment(d, "Problem/Question: ")
                hasC == HasSegment(d, "User Code: ")
                ep == req[r].ep
            IN  /\ ep = "analyze" =>
                    /\ hasQ <=> Field(r, "problem_statement") # ""
                    /\ hasC <=> Field(r, "code_input") # ""
                /\ ep = "edit" =>
                    /\ hasQ <=> Field(r, "question") # ""
                    /\ ~hasC
                    /\ Field(r, "question") = "" => d = <<"Prompt: " \o prompt_edit>>
                /\ ep = "solve_doubt" => hasQ /\ ~hasC
                /\ ep = "givescore" => ~hasQ /\ ~hasC
                /\ Len(d) = 1 + (IF hasQ THEN 1 ELSE 0) + (IF hasC THEN 1 ELSE 0)

\* An analyze call with an empty problem statement and an edit call with an
\* empty question.
C10_Witness ==
    \E r, q \in Req :
        /\ Sent(r) /\ req[r].ep = "analyze"
        /\ Field(r, "problem_statement") = "" /\ Field(r, "code_input") # ""
        /\ Len(sent[r][1]) = 2
        /\ Sent(q) /\ req[q].ep = "edit" /\ Field(q, "question") = ""
        /\ Len(sent[q][1]) = 1

====
